---- MODULE Spec2Model ----
(***************************************************************************)
(* Model of homeassistant/components/krisinformation/sensor.py:            *)
(* CrisisAlerterSensorCounty, its throttled update(), first_update() and   *)
(* added_to_hass(), driven by a host that starts, fires the started event, *)
(* lets time pass and polls the entity.                                    *)
(*                                                                         *)
(* Python str values are TLA+ strings (Len, SubSeq and \o act on them as   *)
(* on sequences of characters).  Time is in seconds.                       *)
(***************************************************************************)
EXTENDS Integers, Sequences, FiniteSets, TLC

(* ------------------------------ bounds -------------------------------- *)

\* Longest alert list the feed returns in the model.
MaxAlerts == 2

\* Longest Area list of an alert in the model (an alert has a primary region).
MaxArea == 2

\* Seconds that pass in one step of the clock.
Step == 60

\* The clock stops advancing here.
MaxTime == 240

\* How many times the host fires EVENT_HOMEASSISTANT_STARTED at most.
MaxEvents == 2

(* ------------------------- program constants -------------------------- *)

\* A variant with a shorter period.
MIN_TIME_shorter == 120 - 60

\* sensor.py:22  MIN_TIME_BETWEEN_UPDATES = timedelta(seconds=120)
MIN_TIME_BETWEEN_UPDATES == 120

\* sensor.py:25-26
NO_ALARM_SV == "Inga larm"

NO_ALARM_EN == "No alarms"

\* sensor.py:215
UNAVAILABLE == "Unavailable"

\* sensor.py:193  the cap of news["PushMessage"][:255]
MaxStateLen == 255

\* Python's None (no string of the model's pools equals it).
None == "<None>"

(* --------------------------- string helpers --------------------------- *)

Min(a, b) == IF a <= b THEN a ELSE b

\* n copies of the character "x".
RECURSIVE Pad(_)
Pad(n) ==
    IF n = 0
    THEN ""
    ELSE LET half == Pad(n \div 2)
         IN  IF n % 2 = 0 THEN half \o half ELSE half \o half \o "x"

\* Python's s[:n] on a str.
Slice(s, n) == SubSeq(s, 1, Min(Len(s), n))

(* ------------------------ the feed's alert pool ----------------------- *)

\* The county the client was constructed with, and another one.
ConfiguredCounty == "Varmlands lan"

OtherCounty == "Stockholms lan"

Counties == {ConfiguredCounty, OtherCounty}

Languages == {"sv", "en"}

\* Messages on both sides of the cap: short, exactly at the cap, one above.
ShortMsg == "Test VMA 1"

MsgAtCap == Pad(MaxStateLen - 1) \o "Y"

MsgOverCap == Pad(MaxStateLen) \o "Z"

MsgIds == 1 .. 3

PushMessageOf(i) == CASE i = 1 -> ShortMsg
                      [] i = 2 -> MsgAtCap
                      [] OTHER -> MsgOverCap

WebOf(i) == CASE i = 1 -> "krisinformation.se/1"
              [] i = 2 -> "krisinformation.se/2"
              [] OTHER -> "krisinformation.se/3"

PublishedOf(i) == CASE i = 1 -> "2023-03-29T11:02:11+02:00"
                    [] i = 2 -> "2023-03-30T11:02:11+02:00"
                    [] OTHER -> "2023-03-31T11:02:11+02:00"

\* An Area list of n entries whose first (primary) description is `primary`.
AreaOf(primary, n) ==
    [k \in 1 .. n |->
        [Description |-> IF k = 1 THEN primary ELSE "Dalarnas lan"]]

\* An AlertRecord of the feed: the keys update() reads.  Its Area list has
\* a first element, the primary region (spec.md section 3).
Alert(i, primary, n) ==
    [PushMessage |-> PushMessageOf(i),
     Web         |-> WebOf(i),
     Published   |-> PublishedOf(i),
     Area        |-> AreaOf(primary, n)]

Alerts == {Alert(i, c, n) : i \in MsgIds, c \in Counties, n \in 1 .. MaxArea}

\* The entries that follow the first one of a list: update() reads
\* response[0] only, so these vary in their county alone.
TailAlerts == {Alert(1, c, 1) : c \in Counties}

Tails == UNION {[1 .. n -> TailAlerts] : n \in 0 .. MaxAlerts - 1}

\* Every alert list vmas() can return: empty, or a first entry and a tail.
Responses == {<<>>} \cup {<<h>> \o t : h \in Alerts, t \in Tails}

\* What a call of vmas() does: return a list, raise this module's Error,
\* or raise any other exception (the client's own, a network error, ...).
VmasResults ==
    {[kind |-> "ok", list |-> r] : r \in Responses}
        \cup {[kind |-> "Error", list |-> <<>>],
              [kind |-> "OtherError", list |-> <<>>]}

\* vmas() raised.
Failed(result) == result.kind \in {"Error", "OtherError"}

(* ------------------------------- state -------------------------------- *)

VARIABLES
    _crisis_alerter,  \* the client: [county, language], set in __init__
    _state,           \* sensor.py:147
    _web,             \* sensor.py:148
    _published,       \* sensor.py:149
    _area,            \* sensor.py:150
    hass_state,       \* self._hass.state: "starting" or "running"
    added,            \* added_to_hass() has run
    listener,         \* first_update is registered for EVENT_HOMEASSISTANT_STARTED
    now,              \* the clock, in seconds
    throttle,         \* Throttle's record of update(): [called, last]
    response,         \* what the last call of vmas() did
    raised,           \* the exception that left the last update() that ran its body
    op,               \* the last handler that ran
    fetches,          \* calls of vmas() so far
    failed_before,    \* consecutive failed calls of vmas() before the last one
    first_updates,    \* runs of first_update() so far
    writes,           \* calls of async_write_ha_state() so far
    events            \* EVENT_HOMEASSISTANT_STARTED fired so far

sensor == <<_state, _web, _published, _area>>

host == <<hass_state, added, listener, events>>

history == <<response, raised, fetches, failed_before, first_updates, writes>>

vars == <<_crisis_alerter, sensor, host, now, throttle, history, op>>

\* The fields update() assigns, as one record.
Self == [_state |-> _state, _web |-> _web,
         _published |-> _published, _area |-> _area]

(* ------------------------------ update() ------------------------------ *)

\* A variant that stores the message uncapped.
Capped_uncapped(msg) == msg

\* sensor.py:193  news["PushMessage"][:255]
Capped(msg) == Slice(msg, MaxStateLen)

\* A variant that answers in English whatever the language.
NoAlarm_english(language) == NO_ALARM_EN

\* sensor.py:202-206 and 208-212
NoAlarm(language) == IF language = "sv" THEN NO_ALARM_SV ELSE NO_ALARM_EN

\* sensor.py:193-200  the branch county == location
OnMatch(self, news) ==
    [self EXCEPT
        !._state     = Capped(news.PushMessage),
        !._web       = news.Web,
        !._published = news.Published,
        !._area      = IF Len(news.Area) > 1
                       THEN news.Area[1].Description
                       ELSE None]

\* sensor.py:201-212  both else branches: only _state is assigned
OnNoAlarm(self, alerter) ==
    [self EXCEPT !._state = NoAlarm(alerter.language)]

\* A variant that also clears the attributes when the fetch fails.
OnError_clearing(self) ==
    [self EXCEPT !._state = UNAVAILABLE, !._web = None,
                 !._published = None, !._area = None]

\* sensor.py:213-215  except Error: only _state is assigned
OnError(self) == [self EXCEPT !._state = UNAVAILABLE]

\* A variant that keeps "Unavailable" once it is shown.
update_stuck(self, alerter, result) ==
    IF result.kind = "ok"
    THEN IF self._state = UNAVAILABLE
         THEN [self |-> self, raised |-> None]
         ELSE IF Len(result.list) > 0
                 /\ result.list[1].Area[1].Description = alerter.county
              THEN [self |-> OnMatch(self, result.list[1]), raised |-> None]
              ELSE [self |-> OnNoAlarm(self, alerter), raised |-> None]
    ELSE IF result.kind = "Error"
         THEN [self |-> OnError(self), raised |-> None]
         ELSE [self |-> self, raised |-> result.kind]

\* sensor.py:184-215  the body of update(), given what vmas() did:
\* the fields afterwards and the exception that leaves update(), if any.
update(self, alerter, result) ==
    IF result.kind = "ok"
    THEN LET response_ == result.list
             location  == alerter.county
         IN  IF Len(response_) > 0
             THEN LET news   == response_[1]
                      county == news.Area[1].Description
                  IN  IF county = location
                      THEN [self |-> OnMatch(self, news), raised |-> None]
                      ELSE [self |-> OnNoAlarm(self, alerter), raised |-> None]
             ELSE [self |-> OnNoAlarm(self, alerter), raised |-> None]
    ELSE IF result.kind = "Error"
         THEN [self |-> OnError(self), raised |-> None]
         ELSE \* any other exception is not caught by `except Error`
              [self |-> self, raised |-> result.kind]

\* Throttle(MIN_TIME_BETWEEN_UPDATES): the call goes through when update()
\* was never called or the period has elapsed since the last call that ran.
Throttled == throttle.called /\ now - throttle.last < MIN_TIME_BETWEEN_UPDATES

\* One call of the throttled update(): either skipped (nothing runs, nothing
\* is raised), or vmas() is called, does any of VmasResults, and the body
\* runs on it.
CallUpdate ==
    IF Throttled
    THEN UNCHANGED <<sensor, throttle, response, raised, fetches, failed_before>>
    ELSE \E result \in VmasResults :
            LET r == update(Self, _crisis_alerter, result)
            IN  /\ _state'     = r.self._state
                /\ _web'       = r.self._web
                /\ _published' = r.self._published
                /\ _area'      = r.self._area
                /\ raised'     = r.raised
                /\ response'   = result
                /\ fetches'    = fetches + 1
                /\ failed_before' = IF Failed(response)
                                    THEN failed_before + 1
                                    ELSE 0
                /\ throttle'   = [called |-> TRUE, last |-> now]

\* sensor.py:178-181  update(), then async_write_ha_state(), which is not
\* reached when update() raises.
first_update ==
    /\ CallUpdate
    /\ first_updates' = first_updates + 1
    /\ writes' = IF raised' = None THEN writes + 1 ELSE writes

(* ------------------------------ actions ------------------------------- *)

\* sensor.py:161-166
AddedToHass ==
    /\ ~added
    /\ added' = TRUE
    /\ op' = "added_to_hass"
    /\ IF hass_state # "running"
       THEN /\ listener' = TRUE
            /\ UNCHANGED <<sensor, throttle, history>>
       ELSE /\ first_update
            /\ UNCHANGED listener
    /\ UNCHANGED <<_crisis_alerter, hass_state, events, now>>

\* The host finishes starting (or fires the event again): listen_once runs
\* the registered callback once and drops it.
HassStarted ==
    /\ events < MaxEvents
    /\ events' = events + 1
    /\ hass_state' = "running"
    /\ op' = "started"
    /\ IF listener
       THEN /\ listener' = FALSE
            /\ first_update
       ELSE UNCHANGED <<listener, sensor, throttle, history>>
    /\ UNCHANGED <<_crisis_alerter, added, now>>

\* The host's periodic tick calls update().
Poll ==
    /\ first_updates > 0
    /\ op' = "poll"
    /\ CallUpdate
    /\ UNCHANGED <<_crisis_alerter, host, now, first_updates, writes>>

\* Time passes.
Advance ==
    /\ now + Step <= MaxTime
    /\ now' = now + Step
    /\ op' = "advance"
    /\ UNCHANGED <<_crisis_alerter, sensor, host, throttle, history>>

Init ==
    /\ _crisis_alerter \in [county : {ConfiguredCounty}, language : Languages]
    /\ _state = None
    /\ _web = None
    /\ _published = None
    /\ _area = None
    /\ hass_state \in {"starting", "running"}
    /\ added = FALSE
    /\ listener = FALSE
    /\ now = 0
    /\ throttle = [called |-> FALSE, last |-> 0]
    /\ response = [kind |-> "none", list |-> <<>>]
    /\ raised = None
    /\ op = "init"
    /\ fetches = 0
    /\ failed_before = 0
    /\ first_updates = 0
    /\ writes = 0
    /\ events = 0

Next == AddedToHass \/ HassStarted \/ Poll \/ Advance

Spec == Init /\ [][Next]_vars

(* ------------------------- claims' vocabulary ------------------------- *)

\* The entry's primary region description is the configured county.
Matches(entry) == entry.Area[1].Description = _crisis_alerter.county

MatchingIndexes(list) == {i \in 1 .. Len(list) : Matches(list[i])}

\* The first matching entry of a list that has one.
FirstMatch(list) ==
    list[CHOOSE i \in MatchingIndexes(list) :
            \A j \in MatchingIndexes(list) : i <= j]

\* The first 255 characters of a string.
First255(str) == SubSeq(str, 1, IF Len(str) < 255 THEN Len(str) ELSE 255)

\* The last fetch returned a list.
FetchedOk == response.kind = "ok"

\* The last fetch returned a list whose first entry update() selected.
Selected == FetchedOk /\ Len(response.list) > 0 /\ Matches(response.list[1])

\* The no-alarm string the spec gives for the client's language.
NoAlarmString ==
    IF _crisis_alerter.language = "sv" THEN "Inga larm" ELSE "No alarms"

(* ------------------------------- claims ------------------------------- *)

\* C1: whenever the fetched list holds an entry for the configured county,
\* the first such entry in list order is the one shown: value is its message
\* cut to 255 characters, link and published are its Web and Published.
C1_FirstMatchSelected ==
    (FetchedOk /\ MatchingIndexes(response.list) # {}) =>
        LET entry == FirstMatch(response.list)
        IN  /\ _state = First255(entry.PushMessage)
            /\ _web = entry.Web
            /\ _published = entry.Published

\* C2: when the most recent fetch returned a list with no entry for the
\* configured county (the empty list included), link, published and region
\* are all null.
C2_NoMatchClearsAttributes ==
    (FetchedOk /\ MatchingIndexes(response.list) = {}) =>
        /\ _web = None
        /\ _published = None
        /\ _area = None

\* C3: whatever error vmas() raised in the most recent fetch, it was caught:
\* value is "Unavailable" and no exception left update().
C3_EveryErrorCaught ==
    Failed(response) => (_state = "Unavailable" /\ raised = None)

\* C4: when the refresh selected an entry, region is that entry's primary
\* region description, whatever the length of its area list; and region is
\* non-null only if a refresh matched (a match is the only place that
\* assigns _web, so a null _web means no refresh has matched yet).
C4_RegionIsMatchedDescription ==
    /\ Selected => _area = response.list[1].Area[1].Description
    /\ _area # None => _web # None

\* C5: value is never longer than 255 characters; a selected message longer
\* than 255 characters is shown as exactly its first 255 characters, a
\* shorter one unchanged.
C5_ValueCapped ==
    /\ _state # None => Len(_state) <= 255
    /\ Selected =>
          LET msg == response.list[1].PushMessage
          IN  IF Len(msg) > 255
              THEN /\ Len(_state) = 255
                   /\ _state \o SubSeq(msg, 256, Len(msg)) = msg
              ELSE _state = msg

\* C5's case: a message over the cap was selected and is shown cut.
C5_Witness ==
    /\ Selected
    /\ Len(response.list[1].PushMessage) > 255
    /\ Len(_state) = 255

\* C6: after a failed refresh, a tick 120 seconds or more after it fetches
\* again, and when that fetch succeeds value is a fetched alert's message
\* (capped) or the no-alarm string, not "Unavailable"; after any number of
\* failures in a row.
C6_RecoversAfterFailure ==
    [][(op' = "poll" /\ Failed(response) /\ now - throttle.last >= 120) =>
          /\ fetches' = fetches + 1
          /\ response'.kind = "ok" =>
                /\ _state' # "Unavailable"
                /\ \/ _state' = NoAlarmString
                   \/ \E i \in 1 .. Len(response'.list) :
                         _state' = First255(response'.list[i].PushMessage)]_vars

\* C6's case: a fetch succeeded right after two failed ones in a row.
C6_Witness ==
    /\ FetchedOk
    /\ failed_before >= 2
    /\ _state # "Unavailable"

\* C7: after a successful fetch with no entry for the configured county,
\* value is "Inga larm" when the language is "sv" and "No alarms" otherwise,
\* for the empty list and for a non-empty list alike.
C7_NoAlarmByLanguage ==
    (FetchedOk /\ MatchingIndexes(response.list) = {}) =>
        _state = NoAlarmString

\* C7's case: a non-empty list without a match, Swedish client.
C7_Witness ==
    /\ FetchedOk
    /\ Len(response.list) > 0
    /\ MatchingIndexes(response.list) = {}
    /\ _crisis_alerter.language = "sv"
    /\ _state = "Inga larm"

\* C8: once update() has fetched, a call of update() less than 120 seconds
\* later fetches nothing and leaves value, link, published and region as
\* they are, and a call after the period fetches, whatever the previous
\* refresh did.
C8_FetchesSpacedByPeriod ==
    [][(op' = "poll" /\ throttle.called) =>
          IF now - throttle.last < 120
          THEN fetches' = fetches /\ sensor' = sensor
          ELSE fetches' = fetches + 1]_vars

\* C8's case: a call of update() was skipped inside the period that follows
\* a failed refresh.
C8_Witness ==
    /\ op = "poll"
    /\ throttle.called
    /\ now - throttle.last > 0
    /\ now - throttle.last < 120
    /\ Failed(response)

\* C9: a refresh whose error update() catches changes value to "Unavailable"
\* and leaves link, published and region as they were.
C9_CaughtErrorKeepsAttributes ==
    [][(fetches' = fetches + 1 /\ response'.kind = "Error") =>
          /\ _state' = "Unavailable"
          /\ _web' = _web
          /\ _published' = _published
          /\ _area' = _area]_vars

\* C9's case: a caught failure after a refresh that had stored an alert.
C9_Witness ==
    /\ response.kind = "Error"
    /\ _state = "Unavailable"
    /\ _web # None
    /\ _published # None

\* C10: the first refresh is ordered after host startup.  While the first
\* refresh is deferred nothing has been fetched; first_update() runs at most
\* once, however often the event fires; and once it has run (at once on a
\* running host, on the event otherwise) it has fetched once and written the
\* state.
C10_FirstUpdateAfterStartup ==
    /\ listener => (fetches = 0 /\ first_updates = 0)
    /\ first_updates <= 1
    /\ (added /\ ~listener) =>
          /\ first_updates = 1
          /\ fetches >= 1
          /\ writes = 1

\* The part of C10 that is about ordering alone: everything but the write.
StartupOrdering ==
    /\ listener => (fetches = 0 /\ first_updates = 0)
    /\ first_updates <= 1
    /\ writes <= first_updates
    /\ (added /\ ~listener) => (first_updates = 1 /\ fetches >= 1)
    /\ (first_updates = 1 /\ raised = None /\ fetches = 1) => writes = 1

====
